---------------------------- MODULE Spec2Model ----------------------------
(***************************************************************************)
(* Model of src/main.py: the per-ticker batch of main(), the report        *)
(* paginator fetch_all_reports, the aggregator                             *)
(* build_one_year_report_stats, safe_ratio and row_color_by_ratio.         *)
(*                                                                         *)
(* Python floats are modelled as exact rationals n/d in lowest terms (the  *)
(* claims checked here do not depend on rounding), with two further        *)
(* values: None and the float NaN.                                         *)
(***************************************************************************)
EXTENDS Integers, Sequences, FiniteSets, TLC

VARIABLES
    size,       \* fetch_all_reports: parameter size
    max_pages,  \* fetch_all_reports: parameter max_pages
    page_start, \* fetch_all_reports: parameter page_start
    page,       \* fetch_all_reports: loop variable page
    all_rows,   \* fetch_all_reports: all_rows (the returned list once pc = "returned")
    exc,        \* the exception in flight ("" when none): its type name
    log,        \* history of the current fetch: page requests and delays, in order
    clock,      \* the host clock: UTC date and the local zone's day shift
    ti,         \* main: index in TICKERS of the ticker being processed
    row,        \* main: the row dict of the ticker being processed
    rows_out,   \* main: rows_out
    cur,        \* history of the current ticker: what its two fetches did
    hist,       \* history: cur of every appended row, in append order
    bgs,        \* main: bgs, the per-row background colours
    reports,    \* the raw_rows argument of build_one_year_report_stats (aggregator runs)
    years,      \* the lookback_years argument of build_one_year_report_stats
    stats,      \* build_one_year_report_stats: the returned triple (aggregator runs)
    pc          \* position in the code

vars == <<size, max_pages, page_start, page, all_rows, exc, log, clock,
          ti, row, rows_out, cur, hist, bgs, reports, years, stats, pc>>

---------------------------------------------------------------------------
(* Bounds of the model *)

\* largest page size fetch_all_reports is called with on its own
MaxSize == 3
\* largest page limit fetch_all_reports is called with on its own
MaxPages == 3
\* the page size of the batch run (PAGE_SIZE, 50 in the source)
BatchPageSize == 2
\* the page limit of the batch run (MAX_PAGES, 50 in the source)
BatchMaxPages == 2
\* longest raw report list handed to the aggregator on its own
MaxRows == 2

---------------------------------------------------------------------------
(* Values: None, NaN and rational numbers *)

None == [k |-> "none", n |-> 0, d |-> 1]
NaN == [k |-> "nan", n |-> 0, d |-> 1]

Abs(x) == IF x < 0 THEN -x ELSE x

RECURSIVE GCD(_, _)
GCD(a, b) == IF b = 0 THEN a ELSE GCD(b, a % b)

\* the number n/d, d # 0, in lowest terms with a positive denominator
Num(n, d) ==
    LET g == GCD(Abs(n), Abs(d))
        s == IF d < 0 THEN -1 ELSE 1
    IN  [k |-> "num", n |-> s * (n \div g), d |-> s * (d \div g)]

IsNum(x) == x.k = "num"
Mul(a, b) == Num(a.n * b.n, a.d * b.d)
Quot(a, b) == Num(a.n * b.d, a.d * b.n)
Leq(a, b) == a.n * b.d <= b.n * a.d
Less(a, b) == a.n * b.d < b.n * a.d

REPORT_FACTOR == Num(9, 10)
BARGAIN_FACTOR == Num(8, 10)
LOOKBACK_YEARS == 1

---------------------------------------------------------------------------
(* Calendar dates <<y, m, d>> and the host clock *)

IsLeap(y) == (y % 4 = 0 /\ y % 100 # 0) \/ y % 400 = 0

DaysInMonth(y, m) ==
    IF m = 2 THEN (IF IsLeap(y) THEN 29 ELSE 28)
    ELSE IF m \in {4, 6, 9, 11} THEN 30 ELSE 31

NextDay(t) ==
    IF t[3] < DaysInMonth(t[1], t[2]) THEN <<t[1], t[2], t[3] + 1>>
    ELSE IF t[2] < 12 THEN <<t[1], t[2] + 1, 1>>
    ELSE <<t[1] + 1, 1, 1>>

PrevDay(t) ==
    IF t[3] > 1 THEN <<t[1], t[2], t[3] - 1>>
    ELSE IF t[2] > 1 THEN <<t[1], t[2] - 1, DaysInMonth(t[1], t[2] - 1)>>
    ELSE <<t[1] - 1, 12, 31>>

\* t1 >= t2 on dates
DateGeq(t1, t2) ==
    \/ t1[1] > t2[1]
    \/ t1[1] = t2[1] /\ t1[2] > t2[2]
    \/ t1[1] = t2[1] /\ t1[2] = t2[2] /\ t1[3] >= t2[3]

\* the date in UTC
UtcToday == clock.utc

\* pd.Timestamp.today().normalize(): the date in the host's local time zone,
\* which is the UTC date, the day before or the day after
LocalToday ==
    IF clock.shift = 1 THEN NextDay(clock.utc)
    ELSE IF clock.shift = -1 THEN PrevDay(clock.utc)
    ELSE clock.utc

\* t - pd.DateOffset(years = n): same month and day n years earlier, the day
\* clipped to the month's length (29 February becomes 28 February)
MinusYears(t, n) ==
    LET y == t[1] - n
        dm == DaysInMonth(y, t[2])
    IN  <<y, t[2], IF t[3] > dm THEN dm ELSE t[3]>>

---------------------------------------------------------------------------
(* Raw reports *)

\* an issueDate string "dd/mm/yyyy" (its numbers need not form a real date)
Dmy(d, m, y) == [k |-> "dmy", y |-> y, m |-> m, d |-> d]
\* an issueDate string in another layout ("yyyy-mm-dd")
Iso(d, m, y) == [k |-> "iso", y |-> y, m |-> m, d |-> d]
\* no issueDate key in the record
NoDate == [k |-> "absent", y |-> 0, m |-> 0, d |-> 0]

\* a targetPrice that is a number
Price(v) == Num(v, 1)
\* a targetPrice that is a non-numeric string ("N/A")
TextPrice == [k |-> "text", n |-> 0, d |-> 1]

\* no source key / a null source
NoSource == "<absent>"

Report(date, target, src) == [issueDate |-> date, targetPrice |-> target, source |-> src]

\* pd.to_datetime(s, format="%d/%m/%Y", errors="coerce"): a date, or NaT
NaT == <<0, 0, 0>>
ParseDate(s) ==
    IF s.k = "dmy" /\ s.m \in 1..12 /\ s.d >= 1 /\ s.d <= DaysInMonth(s.y, s.m)
    THEN <<s.y, s.m, s.d>>
    ELSE NaT

\* pd.to_numeric(v, errors="coerce"): the number, or NaN
ToNumeric(v) == IF v.k = "num" THEN v ELSE NaN


---------------------------------------------------------------------------
(* build_one_year_report_stats *)

Add(a, b) == Num(a.n * b.d + b.n * a.d, a.d * b.d)

RECURSIVE SumOf(_)
SumOf(xs) == IF xs = <<>> THEN Num(0, 1) ELSE Add(Head(xs), SumOf(Tail(xs)))

\* a variant of Mean that counts a NaN as zero
MeanOverAll(xs) ==
    LET nums == SelectSeq(xs, IsNum)
    IN  IF nums = <<>> THEN NaN ELSE Quot(SumOf(nums), Num(Len(xs), 1))

\* Series.mean(): the mean of the values that are not NaN, NaN when there are none
Mean(xs) ==
    LET nums == SelectSeq(xs, IsNum)
    IN  IF nums = <<>> THEN NaN ELSE Quot(SumOf(nums), Num(Len(nums), 1))

\* "<field>" in df.columns: some record carries the key
HasIssueDate(rows) == \E i \in 1..Len(rows) : rows[i].issueDate.k # "absent"
HasSource(rows) == \E i \in 1..Len(rows) : rows[i].source # NoSource

\* cutoff = pd.Timestamp.today().normalize() - pd.DateOffset(years=lookback_years)
Cutoff(lookback_years) == MinusYears(LocalToday, lookback_years)

\* df["issueDate_dt"].notna() & (df["issueDate_dt"] >= cutoff)
InWindow(r, cutoff) ==
    LET dt == ParseDate(r.issueDate)
    IN  dt # NaT /\ DateGeq(dt, cutoff)

\* df_1y["source"].dropna().nunique()
NUnique(rows) ==
    Cardinality({rows[i].source : i \in 1..Len(rows)} \ {NoSource})

ZeroStats == [avg |-> None, diversity |-> 0, n |-> 0]

build_one_year_report_stats(raw_rows, lookback_years) ==
    IF raw_rows = <<>> THEN ZeroStats
    ELSE IF ~HasIssueDate(raw_rows) THEN ZeroStats
    ELSE
        LET cutoff == Cutoff(lookback_years)
            Keep(r) == InWindow(r, cutoff)
            df_1y == SelectSeq(raw_rows, Keep)
            avg_target == Mean([i \in 1..Len(df_1y) |-> ToNumeric(df_1y[i].targetPrice)])
        IN  IF df_1y = <<>> THEN ZeroStats
            ELSE [avg |-> IF avg_target = NaN THEN None ELSE avg_target,
                  diversity |-> IF HasSource(raw_rows) THEN NUnique(df_1y) ELSE 0,
                  n |-> Len(df_1y)]

---------------------------------------------------------------------------
(* safe_ratio and row_color_by_ratio *)

Zero == Num(0, 1)

safe_ratio(current_price, report_eval) ==
    IF current_price = None \/ report_eval = None \/ report_eval = Zero \/ report_eval = NaN
    THEN None
    ELSE IF current_price = NaN THEN NaN
    ELSE Quot(current_price, report_eval)

STRONG == "#6E0080"
MEDIUM == "#00803E"
StrongMax == Num(8, 10)
MediumMax == Num(9, 10)

\* a variant of row_color_by_ratio whose strong tier excludes its boundary
row_color_strict(r) ==
    IF r # None /\ r # NaN /\ Less(r, StrongMax) THEN STRONG
    ELSE IF r # None /\ r # NaN /\ Less(StrongMax, r) /\ Less(r, MediumMax) THEN MEDIUM
    ELSE ""

row_color_by_ratio(r) ==
    IF r # None /\ r # NaN /\ Leq(r, StrongMax) THEN STRONG
    ELSE IF r # None /\ r # NaN /\ Less(StrongMax, r) /\ Less(r, MediumMax) THEN MEDIUM
    ELSE ""

\* main, lines 238 and 247-251: pd.to_numeric(df_out["Ratio"]) turns None into
\* NaN, and a NaN ratio gets no colour without row_color_by_ratio being called
RowBg(ratio) ==
    LET r == IF ratio = None THEN NaN ELSE ratio
    IN  IF r = NaN THEN "" ELSE row_color_by_ratio(r)

---------------------------------------------------------------------------
(* The remote service: what a request can answer *)

\* type names of the exceptions a request can raise
ErrKinds == {"HTTPError", "ConnectionError"}

\* the reports a page of the batch run is made of: inside the window with a
\* numeric target, inside it with a non-numeric target, and outside the window
PageKinds ==
    {Report(Dmy(1, 1, 2024), Price(100), "A"),
     Report(Dmy(1, 1, 2024), TextPrice, "B"),
     Report(Dmy(1, 1, 2020), Price(999), "C")}

Rep(n, r) == [i \in 1..n |-> r]

\* the lists a key of a page's JSON body can hold: up to sz rows of one kind
PageLists(sz) == {Rep(n, r) : n \in 0..sz, r \in PageKinds}

\* the lists the fallback keys can hold: nothing, or a full page
FallbackLists(sz) == {<<>>} \cup {Rep(sz, r) : r \in PageKinds}

\* the answers to a page request of at most sz rows: an exception, or a JSON
\* body with a list (possibly empty) under each of "data", "items", "result"
Responses(sz) ==
    [ok : {FALSE}, err : ErrKinds, data : {<<>>}, items : {<<>>}, result : {<<>>}]
    \cup
    [ok : {TRUE}, err : {""}, data : PageLists(sz), items : FallbackLists(sz),
     result : FallbackLists(sz)]

\* the values float(js["data"]["priceClose"]) can be
PriceValues == {Num(45, 1), Num(72, 1), Num(80, 1), Num(81, 1), Num(90, 1), NaN}

\* the answers to a quote request: an exception, or a price
PriceResponses ==
    [ok : {FALSE}, err : ErrKinds, price : {None}]
    \cup [ok : {TRUE}, err : {""}, price : PriceValues]

---------------------------------------------------------------------------
(* fetch_all_reports *)

\* rows = js.get("data") or js.get("items") or js.get("result") or []
Extract(js) ==
    IF js.data # <<>> THEN js.data
    ELSE IF js.items # <<>> THEN js.items
    ELSE js.result

\* for page in range(page_start, page_start + max_pages): p is in the range
InRange(p, start, maxp) == p < start + maxp

\* a variant of IsShort that also stops on a full page
IsShortOrFull(rows, sz) == Len(rows) <= sz

\* if len(rows) < size: break
IsShort(rows, sz) == Len(rows) < sz

ReqEvent(p, n) == [ev |-> "req", page |-> p, n |-> n]
DelayEvent(p) == [ev |-> "delay", page |-> p, n |-> 0]

\* the call: all_rows = [] and the loop's first test
CallFetch ==
    /\ pc = "call"
    /\ all_rows' = <<>>
    /\ page' = page_start
    /\ log' = <<>>
    /\ exc' = ""
    /\ pc' = IF InRange(page_start, page_start, max_pages) THEN "request" ELSE "returned"
    /\ UNCHANGED <<size, max_pages, page_start, clock, ti, row, rows_out, cur, hist,
                   bgs, reports, years, stats>>

\* a variant of PageFailure that swallows the exception and returns the pages
\* gathered so far
PageFailureSwallowed(js) ==
    /\ exc' = ""
    /\ all_rows' = all_rows
    /\ log' = Append(log, ReqEvent(page, -1))
    /\ pc' = "returned"

\* line 58 raising (raise_for_status, a transport error): the exception leaves
\* fetch_all_reports, and all_rows, a local of the call, is lost with it
PageFailure(js) ==
    /\ exc' = js.err
    /\ all_rows' = <<>>
    /\ log' = Append(log, ReqEvent(page, -1))
    /\ pc' = "raised"

\* lines 59-64 for the body of a successful request
PageSuccess(js) ==
    LET rows == Extract(js)
    IN  /\ exc' = exc
        /\ log' = Append(log, ReqEvent(page, Len(rows)))
        /\ IF rows = <<>>
           THEN /\ all_rows' = all_rows
                /\ pc' = "returned"
           ELSE /\ all_rows' = all_rows \o rows
                /\ pc' = IF IsShort(rows, size) THEN "returned" ELSE "delay"

\* one iteration of the loop up to its break, its raise or its sleep
RequestPage(js) ==
    /\ pc = "request"
    /\ IF js.ok THEN PageSuccess(js) ELSE PageFailure(js)
    /\ UNCHANGED <<size, max_pages, page_start, page, clock, ti, row, rows_out, cur,
                   hist, bgs, reports, years, stats>>

\* time.sleep(random.uniform(MIN_DELAY_S, MAX_DELAY_S)) and the loop's next test
Delay ==
    /\ pc = "delay"
    /\ log' = Append(log, DelayEvent(page))
    /\ page' = page + 1
    /\ pc' = IF InRange(page + 1, page_start, max_pages) THEN "request" ELSE "returned"
    /\ UNCHANGED <<size, max_pages, page_start, all_rows, exc, clock, ti, row,
                   rows_out, cur, hist, bgs, reports, years, stats>>

---------------------------------------------------------------------------
(* main *)

\* a prefix of the source's ticker list
TICKERS == <<"MSN", "SAB">>

\* the source's values are 50 and 50
PAGE_SIZE == BatchPageSize
MAX_PAGES == BatchMaxPages

PriceErr(kind) == [tag |-> "price_err", kind |-> kind]
ReportErr(kind) == [tag |-> "report_err", kind |-> kind]
NoReports == [tag |-> "no_1y_reports_or_no_targetPrice", kind |-> ""]

NewRow(ticker) ==
    [StockCode |-> ticker, CurrentPrice |-> None, ReportEvaluation |-> None,
     Diversity |-> 0, AcceptablePurchasePrice |-> None, Ratio |-> None,
     Reports1Y |-> 0, Errors |-> <<>>]

NewCur == [price |-> "none", report |-> "none", err |-> "", stats |-> ZeroStats]

\* a variant of Evaluate that skips the valuation when there is no current price
EvaluateNeedsPrice(r, raw_reports) ==
    LET st == build_one_year_report_stats(raw_reports, LOOKBACK_YEARS)
        r1 == [r EXCEPT !.Diversity = st.diversity, !.Reports1Y = st.n]
        report_eval == Mul(st.avg, REPORT_FACTOR)
        acceptable == Mul(report_eval, BARGAIN_FACTOR)
    IN  IF st.avg # None /\ r.CurrentPrice # None
        THEN [r1 EXCEPT !.ReportEvaluation = report_eval,
                        !.AcceptablePurchasePrice = acceptable,
                        !.Ratio = safe_ratio(r.CurrentPrice, report_eval)]
        ELSE IF st.avg # None THEN r1
        ELSE [r1 EXCEPT !.Errors = Append(@, NoReports)]

\* a variant of Evaluate that discounts the average, not the evaluation, for
\* the acceptable purchase price
EvaluateUnchained(r, raw_reports) ==
    LET st == build_one_year_report_stats(raw_reports, LOOKBACK_YEARS)
        r1 == [r EXCEPT !.Diversity = st.diversity, !.Reports1Y = st.n]
        report_eval == Mul(st.avg, REPORT_FACTOR)
        acceptable == Mul(st.avg, BARGAIN_FACTOR)
    IN  IF st.avg # None
        THEN [r1 EXCEPT !.ReportEvaluation = report_eval,
                        !.AcceptablePurchasePrice = acceptable,
                        !.Ratio = safe_ratio(r.CurrentPrice, report_eval)]
        ELSE [r1 EXCEPT !.Errors = Append(@, NoReports)]

\* lines 205-217: the row after the aggregation of raw_reports
Evaluate(r, raw_reports) ==
    LET st == build_one_year_report_stats(raw_reports, LOOKBACK_YEARS)
        r1 == [r EXCEPT !.Diversity = st.diversity, !.Reports1Y = st.n]
        report_eval == Mul(st.avg, REPORT_FACTOR)
        acceptable == Mul(report_eval, BARGAIN_FACTOR)
    IN  IF st.avg # None
        THEN [r1 EXCEPT !.ReportEvaluation = report_eval,
                        !.AcceptablePurchasePrice = acceptable,
                        !.Ratio = safe_ratio(r.CurrentPrice, report_eval)]
        ELSE [r1 EXCEPT !.Errors = Append(@, NoReports)]

\* lines 195-198: the quote request and its except clause
FetchPrice(resp) ==
    /\ pc = "price"
    /\ row' = IF resp.ok
              THEN [row EXCEPT !.CurrentPrice = resp.price]
              ELSE [row EXCEPT !.Errors = Append(@, PriceErr(resp.err))]
    /\ cur' = [cur EXCEPT !.price = IF resp.ok THEN "ok" ELSE "fail"]
    /\ pc' = "sleep"
    /\ UNCHANGED <<size, max_pages, page_start, page, all_rows, exc, log, clock, ti,
                   rows_out, hist, bgs, reports, years, stats>>

\* line 200, then the call of line 204
Sleep ==
    /\ pc = "sleep"
    /\ pc' = "call"
    /\ UNCHANGED <<size, max_pages, page_start, page, all_rows, exc, log, clock, ti,
                   row, rows_out, cur, hist, bgs, reports, years, stats>>

\* lines 204-217 once fetch_all_reports has returned
Aggregate ==
    /\ pc = "returned"
    /\ row' = Evaluate(row, all_rows)
    /\ cur' = [cur EXCEPT !.report = "returned",
                          !.stats = build_one_year_report_stats(all_rows, LOOKBACK_YEARS)]
    /\ all_rows' = <<>>
    /\ pc' = "append"
    /\ UNCHANGED <<size, max_pages, page_start, page, exc, log, clock, ti, rows_out,
                   hist, bgs, reports, years, stats>>

\* a variant of HandleReportErr in which the exception is not caught and ends
\* the run
HandleReportErrAbort ==
    /\ pc = "raised"
    /\ pc' = "done"
    /\ UNCHANGED <<size, max_pages, page_start, page, all_rows, exc, log, clock, ti,
                   row, rows_out, cur, hist, bgs, reports, years, stats>>

\* lines 219-220 once fetch_all_reports has raised
HandleReportErr ==
    /\ pc = "raised"
    /\ row' = [row EXCEPT !.Errors = Append(@, ReportErr(exc))]
    /\ cur' = [cur EXCEPT !.report = "raised", !.err = exc]
    /\ exc' = ""
    /\ pc' = "append"
    /\ UNCHANGED <<size, max_pages, page_start, page, all_rows, log, clock, ti,
                   rows_out, hist, bgs, reports, years, stats>>

\* line 222 and the loop's step to the next ticker (line 183), or to line 224
AppendRow ==
    /\ pc = "append"
    /\ rows_out' = Append(rows_out, row)
    /\ hist' = Append(hist, cur)
    /\ ti' = ti + 1
    /\ cur' = NewCur
    /\ IF ti < Len(TICKERS)
       THEN /\ row' = NewRow(TICKERS[ti + 1])
            /\ pc' = "price"
       ELSE /\ row' = row
            /\ pc' = "render"
    /\ UNCHANGED <<size, max_pages, page_start, page, all_rows, exc, log, clock, bgs,
                   reports, years, stats>>

\* lines 238 and 245-252: the background colour of every row
Render ==
    /\ pc = "render"
    /\ bgs' = [i \in 1..Len(rows_out) |-> RowBg(rows_out[i].Ratio)]
    /\ pc' = "done"
    /\ UNCHANGED <<size, max_pages, page_start, page, all_rows, exc, log, clock, ti,
                   row, rows_out, cur, hist, reports, years, stats>>

\* the clock of the batch run
MainClock == [utc |-> <<2024, 6, 1>>, shift |-> 0]

Init ==
    /\ size = PAGE_SIZE
    /\ max_pages = MAX_PAGES
    /\ page_start = 0
    /\ page = 0
    /\ all_rows = <<>>
    /\ exc = ""
    /\ log = <<>>
    /\ clock = MainClock
    /\ ti = 1
    /\ row = NewRow(TICKERS[1])
    /\ rows_out = <<>>
    /\ cur = NewCur
    /\ hist = <<>>
    /\ bgs = <<>>
    /\ reports = <<>>
    /\ years = LOOKBACK_YEARS
    /\ stats = ZeroStats
    /\ pc = "price"

Next ==
    \/ \E resp \in PriceResponses : FetchPrice(resp)
    \/ Sleep
    \/ CallFetch
    \/ \E js \in Responses(size) : RequestPage(js)
    \/ Delay
    \/ Aggregate
    \/ HandleReportErr
    \/ AppendRow
    \/ Render

Spec == Init /\ [][Next]_vars

---------------------------------------------------------------------------
(* fetch_all_reports on its own, for every page size and page limit *)

InitPaginator ==
    /\ size \in 1..MaxSize
    /\ max_pages \in 0..MaxPages
    /\ page_start = 0
    /\ page = 0
    /\ all_rows = <<>>
    /\ exc = ""
    /\ log = <<>>
    /\ clock = MainClock
    /\ ti = 1
    /\ row = NewRow(TICKERS[1])
    /\ rows_out = <<>>
    /\ cur = NewCur
    /\ hist = <<>>
    /\ bgs = <<>>
    /\ reports = <<>>
    /\ years = LOOKBACK_YEARS
    /\ stats = ZeroStats
    /\ pc = "call"

NextPaginator ==
    \/ CallFetch
    \/ \E js \in Responses(size) : RequestPage(js)
    \/ Delay

SpecPaginator == InitPaginator /\ [][NextPaginator]_vars

---------------------------------------------------------------------------
(* build_one_year_report_stats on its own, for every list of raw reports *)

\* the raw reports of the aggregator runs
StatKinds ==
    {Report(Dmy(1, 6, 2023), Price(100), "A"),
     Report(Dmy(31, 5, 2023), Price(120), "B"),
     Report(Dmy(2, 6, 2023), Price(90), "C"),
     Report(Dmy(28, 2, 2023), Price(80), "B"),
     Report(Dmy(1, 6, 2022), Price(60), "D"),
     Report(Dmy(1, 1, 2024), TextPrice, "A"),
     Report(Dmy(1, 1, 2024), None, NoSource),
     Report(Dmy(1, 1, 2024), Price(110), NoSource),
     Report(Iso(1, 1, 2024), Price(100), "E"),
     Report(Dmy(31, 2, 2024), Price(100), "E"),
     Report(NoDate, Price(100), "E"),
     Report(Dmy(1, 1, 2020), Price(999), "F")}

\* the clocks of the aggregator runs: two UTC dates, in a zone behind UTC, at
\* UTC and ahead of UTC
StatClocks == [utc : {<<2024, 6, 1>>, <<2024, 2, 29>>}, shift : {-1, 0, 1}]

RECURSIVE SeqsUpTo(_, _)
SeqsUpTo(S, n) ==
    IF n = 0 THEN {<<>>}
    ELSE LET shorter == SeqsUpTo(S, n - 1)
         IN  shorter \cup {Append(q, x) : q \in shorter, x \in S}

InitStats ==
    /\ size = PAGE_SIZE
    /\ max_pages = MAX_PAGES
    /\ page_start = 0
    /\ page = 0
    /\ all_rows = <<>>
    /\ exc = ""
    /\ log = <<>>
    /\ clock \in StatClocks
    /\ ti = 1
    /\ row = NewRow(TICKERS[1])
    /\ rows_out = <<>>
    /\ cur = NewCur
    /\ hist = <<>>
    /\ bgs = <<>>
    /\ reports \in SeqsUpTo(StatKinds, MaxRows)
    /\ years \in {1, 2}
    /\ stats = ZeroStats
    /\ pc = "stats"

\* one call of build_one_year_report_stats
Summarize ==
    /\ pc = "stats"
    /\ stats' = build_one_year_report_stats(reports, years)
    /\ pc' = "stats_done"
    /\ UNCHANGED <<size, max_pages, page_start, page, all_rows, exc, log, clock, ti,
                   row, rows_out, cur, hist, bgs, reports, years>>

NextStats == Summarize

SpecStats == InitStats /\ [][NextStats]_vars

---------------------------------------------------------------------------
(* Properties *)

IsReq(e) == e.ev = "req"

\* the page requests of the current fetch, in order
Requests == SelectSeq(log, IsReq)

\* C1: fetch_all_reports requests the pages 0, 1, 2, ... in order, never more
\* than max_pages of them and never one after a page that was empty, short or
\* failed; it returns right after the first empty or short page, and when it
\* has returned without one, every page was full and exactly max_pages pages
\* were requested.
C1_PaginationStops ==
    LET reqs == Requests
        k == Len(reqs)
    IN  /\ \A i \in 1..k : reqs[i].page = i - 1
        /\ k <= max_pages
        /\ \A i \in 1..(k - 1) : reqs[i].n >= size
        /\ (k > 0 /\ reqs[k].n \in 0..(size - 1)) => pc = "returned"
        /\ pc = "returned" =>
              \/ k > 0 /\ reqs[k].n \in 0..(size - 1)
              \/ k = max_pages /\ \A i \in 1..k : reqs[i].n >= size

\* a fetch that stopped at a short second page with the page limit not reached
C1_Witness ==
    /\ pc = "returned"
    /\ Len(Requests) = 2
    /\ max_pages > 2
    /\ Requests[1].n = size
    /\ Requests[2].n \in 1..(size - 1)

\* the last page request of the current fetch raised
FetchFailed == log # <<>> /\ log[Len(log)].ev = "req" /\ log[Len(log)].n = -1

\* C2: once a page request of a ticker's fetch has failed, the fetch is over
\* and its exception is with the caller, who gets none of the rows of the
\* earlier pages: the ticker's row keeps Reports (1Y) = 0, Diversity = 0, no
\* Report Evaluation, no Acceptable Purchase Price and no Ratio, and its last
\* error tag is a report_err tag.
C2_FailedFetchDiscardsPages ==
    FetchFailed =>
        LET r == IF pc \in {"raised", "append"} THEN row ELSE rows_out[Len(rows_out)]
        IN  /\ pc \notin {"request", "delay", "returned"}
            /\ pc = "raised" => all_rows = <<>> /\ exc \in ErrKinds
            /\ r.Reports1Y = 0
            /\ r.Diversity = 0
            /\ r.ReportEvaluation = None
            /\ r.AcceptablePurchasePrice = None
            /\ r.Ratio = None
            /\ pc # "raised" =>
                  /\ r.Errors # <<>>
                  /\ r.Errors[Len(r.Errors)].tag = "report_err"
                  /\ r.Errors[Len(r.Errors)].kind \in ErrKinds

\* the last ticker's fetch failed at its second page, after a full first page
C2_Witness ==
    /\ pc = "done"
    /\ FetchFailed
    /\ Len(log) = 3
    /\ log[1].n = size
    /\ rows_out[Len(rows_out)].Reports1Y = 0

\* the state part of C3
C3_RowsInTickerOrder ==
    /\ Len(rows_out) <= Len(TICKERS)
    /\ \A i \in 1..Len(rows_out) : rows_out[i].StockCode = TICKERS[i]
    /\ pc \in {"render", "done"} => Len(rows_out) = Len(TICKERS)
    /\ pc \notin {"render", "done"} => Len(rows_out) = ti - 1 /\ row.StockCode = TICKERS[ti]

\* the step part of C3
C3_RowsKept ==
    /\ Len(rows_out') >= Len(rows_out)
    /\ \A i \in 1..Len(rows_out) : rows_out'[i] = rows_out[i]

\* C3: whatever the price and report fetches of the tickers do, rows_out
\* always holds one row per ticker processed so far, in ticker input order,
\* the run ends with one row for every ticker, and no step removes, reorders
\* or changes a row that was appended.
C3_OneRowPerTicker == [][C3_RowsInTickerOrder' /\ C3_RowsKept]_vars

\* the run is over and the first ticker failed both its fetches
C3_Witness ==
    /\ pc = "done"
    /\ Len(rows_out) = Len(TICKERS)
    /\ hist[1].price = "fail"
    /\ hist[1].report = "raised"
    /\ hist[2].report = "returned"

\* the tags of a row's Errors that the report stage wrote
ReportTags(r) == SelectSeq(r.Errors, LAMBDA t : t.tag # "price_err")

\* the fields of a row that the report stage writes
ReportFields(r) ==
    <<r.ReportEvaluation, r.AcceptablePurchasePrice, r.Diversity, r.Reports1Y,
      ReportTags(r)>>

\* C4: a row has a price_err tag exactly when its price fetch failed, and the
\* tag is then the first of Errors; after a failed price fetch the report
\* stage still runs and the row has no Current Price and no Ratio; and two
\* rows whose report stages ended alike (both raised the same exception, or
\* both aggregated the same statistics) have the same Report Evaluation, Acceptable Purchase
\* Price, Diversity, Reports (1Y) and report-stage tags, whether or not their
\* price fetches failed.
C4_PriceFailureKeepsReportFields ==
    /\ \A i \in 1..Len(rows_out) :
          LET r == rows_out[i]
              h == hist[i]
          IN  /\ (\E j \in 1..Len(r.Errors) : r.Errors[j].tag = "price_err")
                    <=> h.price = "fail"
              /\ \A j \in 2..Len(r.Errors) : r.Errors[j].tag # "price_err"
              /\ h.price \in {"ok", "fail"}
              /\ h.report \in {"returned", "raised"}
              /\ h.price = "fail" => r.CurrentPrice = None /\ r.Ratio = None
    /\ \A i, j \in 1..Len(rows_out) :
          hist[i] = [hist[j] EXCEPT !.price = hist[i].price]
              => ReportFields(rows_out[i]) = ReportFields(rows_out[j])

\* the first ticker's price fetch failed, the second's did not, and both got
\* the same statistics, with a target average
C4_Witness ==
    /\ pc = "done"
    /\ hist[1].price = "fail"
    /\ hist[2].price = "ok"
    /\ hist[1].report = "returned"
    /\ hist[1] = [hist[2] EXCEPT !.price = "fail"]
    /\ hist[1].stats.avg # None
    /\ rows_out[1].ReportEvaluation # None
    /\ rows_out[2].Ratio # None

\* C5 (the claim as stated): the Ratio of a row is Current Price / Report
\* Evaluation when both are numbers (neither None nor NaN) and the evaluation
\* is not zero, and None in every other case.
C5_RatioOnlyOfNumbers ==
    \A i \in 1..Len(rows_out) :
        LET r == rows_out[i]
            cp == r.CurrentPrice
            ev == r.ReportEvaluation
        IN  IF IsNum(cp) /\ IsNum(ev) /\ ev.n # 0
            THEN r.Ratio = Num(cp.n * ev.d, cp.d * ev.n)
            ELSE r.Ratio = None

\* C6: a row whose report stage aggregated a null target average has no
\* Report Evaluation, no Acceptable Purchase Price, no Ratio and the
\* no_1y_reports_or_no_targetPrice tag; a row whose report stage aggregated a
\* target average a has Report Evaluation = a x 0.9, Acceptable Purchase
\* Price = Report Evaluation x 0.8 and not that tag.
C6_NullAverageOrValuation ==
    \A i \in 1..Len(rows_out) :
        LET r == rows_out[i]
            a == hist[i].stats.avg
            tagged == \E j \in 1..Len(r.Errors) : r.Errors[j] = NoReports
        IN  hist[i].report = "returned" =>
                IF a = None
                THEN /\ r.ReportEvaluation = None
                     /\ r.AcceptablePurchasePrice = None
                     /\ r.Ratio = None
                     /\ tagged
                ELSE /\ r.ReportEvaluation = Num(a.n * 9, a.d * 10)
                     /\ r.AcceptablePurchasePrice = Num(a.n * 9 * 8, a.d * 10 * 10)
                     /\ ~tagged

\* the first row counts reports of the window, none with a numeric target,
\* and the second row has a target average
C6_Witness ==
    /\ Len(rows_out) = 2
    /\ hist[1].report = "returned"
    /\ hist[1].stats.avg = None
    /\ rows_out[1].Reports1Y > 0
    /\ hist[2].report = "returned"
    /\ hist[2].stats.avg = Num(100, 1)
    /\ rows_out[2].ReportEvaluation = Num(90, 1)
    /\ rows_out[2].AcceptablePurchasePrice = Num(72, 1)

\* the indices of the records of the aggregator's input whose issueDate is a
\* real date in the dd/mm/yyyy layout, on or after the day `years` years
\* before today
Window(today) ==
    {i \in 1..Len(reports) :
        LET s == reports[i].issueDate
        IN  /\ s.k = "dmy"
            /\ s.m \in 1..12
            /\ s.d \in 1..DaysInMonth(s.y, s.m)
            /\ DateGeq(<<s.y, s.m, s.d>>, MinusYears(today, years))}

\* C7 (the claim as stated): reportCount is the number of records whose
\* issueDate parses as DD/MM/YYYY and is on or after today's UTC date minus
\* lookbackYears years.
C7_CountOfUtcWindow ==
    pc = "stats_done" => stats.n = Cardinality(Window(UtcToday))

\* the sum of the integer target prices of the records with indices in S
RECURSIVE TargetSum(_)
TargetSum(S) ==
    IF S = {} THEN 0
    ELSE LET i == CHOOSE x \in S : TRUE
         IN  reports[i].targetPrice.n + TargetSum(S \ {i})

\* C8: with the window taken at the date the aggregator reads, reportCount is
\* the number of records in the window and sourceDiversity the number of their
\* distinct sources, whether or not their target prices are numeric, while
\* averageTarget is the mean of the numeric target prices of those records
\* only, and null when there is none.
C8_MeanOfNumericTargetsOnly ==
    pc = "stats_done" =>
        LET win == Window(LocalToday)
            numeric == {i \in win : reports[i].targetPrice.k = "num"}
        IN  /\ stats.n = Cardinality(win)
            /\ stats.diversity = Cardinality({reports[i].source : i \in win} \ {NoSource})
            /\ stats.avg = IF numeric = {} THEN None
                           ELSE Num(TargetSum(numeric), Cardinality(numeric))

\* two records in the window from two sources, one with a non-numeric target:
\* both are counted and the average is the other's target
C8_Witness ==
    /\ pc = "stats_done"
    /\ Len(reports) = 2
    /\ reports[1].targetPrice = TextPrice
    /\ reports[2].targetPrice.k = "num"
    /\ reports[1].source # reports[2].source
    /\ stats.n = 2
    /\ stats.diversity = 2
    /\ stats.avg = reports[2].targetPrice

\* the tier of a ratio: r <= 0.8 strong, 0.8 < r < 0.9 medium, else none
TierColor(r) ==
    IF r.k # "num" THEN ""
    ELSE IF r.n * 10 <= 8 * r.d THEN "#6E0080"
    ELSE IF r.n * 10 < 9 * r.d THEN "#00803E"
    ELSE ""

\* C9: the two tier colours differ, and once the table is rendered the
\* background of every row is the colour of the tier of the Ratio stored in
\* that row: strong for a ratio <= 0.8, medium for a ratio strictly between
\* 0.8 and 0.9, none for a ratio >= 0.9, a null ratio or a NaN ratio.
C9_HighlightTiers ==
    /\ STRONG # MEDIUM
    /\ pc = "done" =>
          /\ Len(bgs) = Len(rows_out)
          /\ \A i \in 1..Len(rows_out) : bgs[i] = TierColor(rows_out[i].Ratio)

\* a rendered table whose first row has ratio 0.8 exactly (strong) and whose
\* second row has ratio 0.9 exactly (none)
C9_Witness ==
    /\ pc = "done"
    /\ rows_out[1].Ratio = Num(8, 10)
    /\ bgs[1] = STRONG
    /\ rows_out[2].Ratio = Num(9, 10)
    /\ bgs[2] = ""

\* C10 (the claim as stated): in the log of a fetch every delay is followed
\* by a page request, and the log of a fetch that is over does not end with a
\* delay.
C10_DelayOnlyBetweenRequests ==
    /\ \A i \in 1..(Len(log) - 1) : log[i].ev = "delay" => log[i + 1].ev = "req"
    /\ (pc \in {"returned", "raised"} /\ log # <<>>) => log[Len(log)].ev # "delay"

=============================================================================
